---- MODULE Spec2Model ----
(***************************************************************************)
(* Exchange rate viewer: the rate cache (SQLite table `rates`), the cache  *)
(* sufficiency check, the save and the query of exchange_rate_viewer, and  *)
(* the request handler `index` of app.py that combines them.               *)
(*                                                                         *)
(* The repository holds two revisions of the store code: the functions of  *)
(* app.py (table without a uniqueness constraint, INSERT followed by a     *)
(* DELETE of duplicated rows) and the functions of                         *)
(* modules/sqldb_communication.py (table with UNIQUE(date, currency),      *)
(* INSERT OR REPLACE). app.py never calls the module; `revision` says      *)
(* which of the two is deployed on the database file.                      *)
(*                                                                         *)
(* A date object is its proleptic Gregorian ordinal (datetime.date         *)
(* .toordinal()); a timedelta is a number of days. A date string           *)
(* "YYYY-MM-DD" is the sequence of its eight digits (the two '-' stand at  *)
(* fixed positions and are left out); SQLite compares the stored TEXT      *)
(* bytewise, i.e. digit by digit.                                          *)
(***************************************************************************)
EXTENDS Integers, Sequences, FiniteSets, TLC

\* ------------------------------------------------------------------ bounds
\* Longest batch handed to a direct call of save_currency_rates_to_db.
MaxBatch == 2
\* Largest number of rows the table holds after a save.
MaxStore == 2
\* Longest "rates" list of one response of the remote rates endpoint.
MaxFetched == 2

\* Currency codes and mid rates (in units of 0.0001 PLN) of the model.
Currencies == {"USD", "EUR"}
Rates == {1, 2}

\* ------------------------------------------------- datetime (CPython's date)
\* datetime._is_leap
is_leap(year) == year % 4 = 0 /\ (year % 100 # 0 \/ year % 400 = 0)

\* datetime._days_before_year
days_before_year(year) ==
    LET y == year - 1 IN y * 365 + (y \div 4) - (y \div 100) + (y \div 400)

\* datetime._days_before_month
days_before_month(year, month) ==
    <<0, 31, 59, 90, 120, 151, 181, 212, 243, 273, 304, 334>>[month]
    + (IF month > 2 /\ is_leap(year) THEN 1 ELSE 0)

\* datetime._ymd2ord: date(year, month, day).toordinal()
ymd2ord(year, month, day) ==
    days_before_year(year) + days_before_month(year, month) + day

\* datetime._ord2ymd: date.fromordinal(n) as <<year, month, day>>
ord2ymd(ordinal) ==
    LET n0   == ordinal - 1
        n400 == n0 \div 146097
        r400 == n0 % 146097
        n100 == r400 \div 36524
        r100 == r400 % 36524
        n4   == r100 \div 1461
        r4   == r100 % 1461
        n1   == r4 \div 365
        n    == r4 % 365
        year == n400 * 400 + 1 + n100 * 100 + n4 * 4 + n1
    IN  IF n1 = 4 \/ n100 = 4 THEN <<year - 1, 12, 31>>
        ELSE LET leapyear == n1 = 3 /\ (n4 # 24 \/ n100 = 3)
                 leap     == IF leapyear THEN 1 ELSE 0
                 m0       == (n + 50) \div 32
                 before0  == <<0, 31, 59, 90, 120, 151, 181, 212, 243, 273, 304, 334>>[m0]
                             + (IF m0 > 2 THEN leap ELSE 0)
                 month    == IF before0 > n THEN m0 - 1 ELSE m0
                 before   == IF before0 > n
                             THEN before0
                                  - (<<31, 28, 31, 30, 31, 30, 31, 31, 30, 31, 30, 31>>[month]
                                     + (IF month = 2 THEN leap ELSE 0))
                             ELSE before0
             IN  <<year, month, n - before + 1>>

\* date.isoweekday(): 1 = Monday .. 7 = Sunday
isoweekday(date_obj) == ((date_obj + 6) % 7) + 1

\* date_obj.strftime("%Y-%m-%d") (and date.isoformat(), which sqlite3's
\* default adapter applies to a bound date parameter): zero-padded digits.
date_to_str(date_obj) ==
    LET ymd == ord2ymd(date_obj)
        y == ymd[1]
        m == ymd[2]
        d == ymd[3]
    IN  << y \div 1000, (y \div 100) % 10, (y \div 10) % 10, y % 10,
           m \div 10, m % 10, d \div 10, d % 10 >>

\* datetime.strptime(date_str, "%Y-%m-%d").date() of a well-formed string
str_to_date(date_str) ==
    ymd2ord(date_str[1] * 1000 + date_str[2] * 100 + date_str[3] * 10 + date_str[4],
            date_str[5] * 10 + date_str[6],
            date_str[7] * 10 + date_str[8])

\* (end_date - start_date).days
get_difference_in_days(start_date, end_date) == end_date - start_date

\* The calendar days of the model, Sunday 2021-01-31 to Tuesday 2021-02-02
\* (a weekend day and two business days across a month boundary), and their
\* string forms.
Days == ymd2ord(2021, 1, 31) .. ymd2ord(2021, 2, 2)
DateStrs == {date_to_str(d) : d \in Days}

\* ------------------------------------------------------------ SQLite TEXT
\* Bytewise comparison of two TEXT values of equal length (BINARY collation).
text_lt(a, b) ==
    \E i \in 1..Len(a) : a[i] < b[i] /\ \A j \in 1..(i - 1) : a[j] = b[j]

text_le(a, b) == a = b \/ text_lt(a, b)

\* x BETWEEN lo AND hi
text_between(x, lo, hi) == text_le(lo, x) /\ text_le(x, hi)

\* Insertion of a row into a list already ordered by date; rows of equal
\* date keep their rowid order.
RECURSIVE insert_by_date(_, _)
insert_by_date(row, ordered) ==
    IF ordered = <<>> THEN <<row>>
    ELSE IF text_lt(row.date, Head(ordered).date) THEN <<row>> \o ordered
    ELSE <<Head(ordered)>> \o insert_by_date(row, Tail(ordered))

\* ORDER BY date
RECURSIVE order_by_date(_)
order_by_date(rows) ==
    IF rows = <<>> THEN <<>>
    ELSE insert_by_date(rows[Len(rows)], order_by_date(SubSeq(rows, 1, Len(rows) - 1)))

\* Mutant of select_rates: the ORDER BY clause is missing.
select_rates_unordered(store, currency, start_text, end_text) ==
    SelectSeq(store,
        LAMBDA r : r.currency = currency /\ text_between(r.date, start_text, end_text))

\* SELECT date, rate FROM rates WHERE currency = ? AND date BETWEEN ? AND ?
\* ORDER BY date: the selected rows of the table (a list in rowid order).
select_rates(store, currency, start_text, end_text) ==
    order_by_date(SelectSeq(store,
        LAMBDA r : r.currency = currency /\ text_between(r.date, start_text, end_text)))

\* ------------------------------------------------------------------ state
VARIABLES
    revision,      \* "app": the store functions of app.py; "modules": those of
                   \* modules/sqldb_communication.py
    table_exists,  \* the database file holds the table `rates`
    rates,         \* the committed rows of `rates`, in rowid order
    txn,           \* the open write transaction: its connection and its rows
    call,          \* the last direct call of a store function and its result
    active,        \* the workers that serve requests
    pc,            \* per worker: where `index` stands
    form,          \* per worker: flask.request (method and form)
    loc,           \* per worker: the local variables of `index`
    page,          \* per worker: what `index` returned
    obs            \* per worker: what the request did so far

storeVars == <<revision, table_exists, rates, txn>>
reqVars == <<active, pc, form, loc, page, obs>>
vars == <<revision, table_exists, rates, txn, call, active, pc, form, loc, page, obs>>

Workers == {1, 2}

\* A row of `rates`: the tuple (effective_date, currency, rate).
RowsOf(currency) == [date : DateStrs, currency : {currency}, rate : Rates]

same_key(r1, r2) == r1.date = r2.date /\ r1.currency = r2.currency

\* ------------------------------------------------------- app.py: the store
\* Mutant of app_dates_to_check: the days of the weekend are not left out.
dates_to_check_with_weekends(start_date, end_date) ==
    LET days_difference == get_difference_in_days(start_date, end_date)
    IN  [i \in 1..(IF days_difference > 0 THEN days_difference ELSE 0)
            |-> date_to_str(start_date + (i - 1))]

\* app.py is_data_already_in_cache, lines 69-78: the days the cache must hold.
app_dates_to_check(start_date, end_date) ==
    LET days_difference == get_difference_in_days(start_date, end_date)
        all_days == [i \in 1..(IF days_difference > 0 THEN days_difference ELSE 0)
                        |-> start_date + (i - 1)]
        weekdays == SelectSeq(all_days, LAMBDA d : isoweekday(d) < 6)
    IN  [i \in 1..Len(weekdays) |-> date_to_str(weekdays[i])]

\* app.py is_data_already_in_cache, lines 80-109. The query raises
\* sqlite3.OperationalError when the table does not exist.
app_is_data_already_in_cache(exists, store, currency, start_date, end_date) ==
    LET dates_to_check == app_dates_to_check(start_date, end_date)
        selected == select_rates(store, currency,
                                 date_to_str(start_date), date_to_str(end_date))
        cached_list == [i \in 1..Len(selected) |-> selected[i].date]
    IN  IF ~exists THEN FALSE
        ELSE \A i \in 1..Len(dates_to_check) :
                \E j \in 1..Len(cached_list) : cached_list[j] = dates_to_check[i]

\* Mutant of remove_duplicated_rows: the DELETE removes nothing.
keep_duplicated_rows(rows) == rows

\* DELETE FROM rates AS r1 WHERE EXISTS (... r1.date = r2.date AND
\* r1.currency = r2.currency AND r1.rowid > r2.rowid)
RECURSIVE remove_duplicated_rows(_)
remove_duplicated_rows(rows) ==
    IF rows = <<>> THEN <<>>
    ELSE LET n == Len(rows)
             kept == remove_duplicated_rows(SubSeq(rows, 1, n - 1))
         IN  IF \E j \in 1..(n - 1) : same_key(rows[j], rows[n])
             THEN kept
             ELSE Append(kept, rows[n])

\* Mutant of app_save_currency_rates_to_db: the DELETE of duplicated rows is
\* missing.
save_without_delete(store, rows_to_insert) == store \o rows_to_insert

\* Mutant of app_save_currency_rates_to_db: the table is emptied before the
\* rows are inserted.
save_replacing_table(store, rows_to_insert) == remove_duplicated_rows(rows_to_insert)

\* app.py save_currency_rates_to_db: one transaction that inserts the rows
\* and removes the duplicated ones (create_table has run before it).
app_save_currency_rates_to_db(store, rows_to_insert) ==
    remove_duplicated_rows(store \o rows_to_insert)

\* Mutant of app_get_data_from_local_db: the WHERE clause is missing.
get_data_without_where(store, currency, start_date_str, end_date_str) ==
    LET ordered == order_by_date(store)
    IN  [i \in 1..Len(ordered) |-> <<ordered[i].date, ordered[i].rate>>]

\* app.py get_data_from_local_db: the list of (date, rate) of an existing table.
app_get_data_from_local_db(store, currency, start_date_str, end_date_str) ==
    LET selected == select_rates(store, currency, start_date_str, end_date_str)
    IN  [i \in 1..Len(selected) |-> <<selected[i].date, selected[i].rate>>]

\* --------------------------------- modules/sqldb_communication.py: the store
\* datetime_operations-free copy of the check in sqldb_communication.py.
sqldb_dates_to_check(start_date, end_date) ==
    LET days_difference == get_difference_in_days(start_date, end_date)
        all_days == [i \in 1..(IF days_difference > 0 THEN days_difference ELSE 0)
                        |-> start_date + (i - 1)]
        weekdays == SelectSeq(all_days, LAMBDA d : isoweekday(d) < 6)
    IN  [i \in 1..Len(weekdays) |-> date_to_str(weekdays[i])]

sqldb_is_data_already_in_cache(exists, store, currency, start_date, end_date) ==
    LET dates_to_check == sqldb_dates_to_check(start_date, end_date)
        selected == select_rates(store, currency,
                                 date_to_str(start_date), date_to_str(end_date))
        cached_list == [i \in 1..Len(selected) |-> selected[i].date]
    IN  IF ~exists THEN FALSE
        ELSE \A i \in 1..Len(dates_to_check) :
                \E j \in 1..Len(cached_list) : cached_list[j] = dates_to_check[i]

\* Mutant of insert_or_replace: a plain INSERT into a table without the
\* uniqueness constraint.
insert_without_replace(store, row) == Append(store, row)

\* Mutant of insert_or_replace: the constraint is UNIQUE(date), and the row
\* of any currency that holds the date is replaced.
insert_or_replace_by_date(store, row) ==
    Append(SelectSeq(store, LAMBDA r : r.date # row.date), row)

\* INSERT OR REPLACE of one row into a table with UNIQUE(date, currency):
\* the row that holds the key is deleted, the new row gets the next rowid.
insert_or_replace(store, row) ==
    Append(SelectSeq(store, LAMBDA r : ~same_key(r, row)), row)

\* sqldb_communication.save_currency_rates_to_db: executemany in one transaction.
RECURSIVE sqldb_save_currency_rates_to_db(_, _)
sqldb_save_currency_rates_to_db(store, rows_to_insert) ==
    IF rows_to_insert = <<>> THEN store
    ELSE sqldb_save_currency_rates_to_db(insert_or_replace(store, Head(rows_to_insert)),
                                         Tail(rows_to_insert))

\* sqldb_communication.get_data_from_sql_table
sqldb_get_data_from_sql_table(store, currency, start_date_str, end_date_str) ==
    LET selected == select_rates(store, currency, start_date_str, end_date_str)
    IN  [i \in 1..Len(selected) |-> <<selected[i].date, selected[i].rate>>]

\* --------------------------------------------- direct calls of the store
NoCall ==
    [op |-> "none", currency |-> "", start_date |-> 0, end_date |-> 0,
     start_date_str |-> <<>>, end_date_str |-> <<>>, rows |-> <<>>,
     repeated |-> FALSE, err |-> "", result_bool |-> FALSE, result_rows |-> <<>>]

\* The batches a caller hands to save_currency_rates_to_db: rows of one
\* currency (create_rows_to_insert), a key possibly more than once.
Batches ==
    UNION {[1..n -> RowsOf(c)] : n \in 0..MaxBatch, c \in Currencies}

\* A caller calls is_data_already_in_cache(currency, start_date, end_date).
CallIsDataAlreadyInCache(currency, start_date, end_date) ==
    /\ call.op = "none"
    /\ call' = [NoCall EXCEPT !.op = "is_data_already_in_cache",
                    !.currency = currency,
                    !.start_date = start_date, !.end_date = end_date,
                    !.result_bool =
                        IF revision = "app"
                        THEN app_is_data_already_in_cache(table_exists, rates, currency,
                                                          start_date, end_date)
                        ELSE sqldb_is_data_already_in_cache(table_exists, rates, currency,
                                                            start_date, end_date)]
    /\ UNCHANGED <<storeVars, reqVars>>

\* A caller calls app.py save_currency_rates_to_db(rows_to_insert), which
\* creates the table when it is missing.
AppSave(rows) ==
    /\ revision = "app"
    /\ call.op = "none"
    /\ LET saved == app_save_currency_rates_to_db(rates, rows)
       IN  /\ Len(saved) <= MaxStore
           /\ rates' = saved
    /\ table_exists' = TRUE
    /\ call' = [NoCall EXCEPT !.op = "save_currency_rates_to_db", !.rows = rows]
    /\ UNCHANGED <<revision, txn, reqVars>>

\* sqldb_communication.create_table(), called by config.setup_app
SqldbCreateTable ==
    /\ revision = "modules"
    /\ call.op = "none"
    /\ ~table_exists
    /\ table_exists' = TRUE
    /\ call' = [NoCall EXCEPT !.op = "create_table"]
    /\ UNCHANGED <<revision, rates, txn, reqVars>>

\* A caller calls sqldb_communication.save_currency_rates_to_db(rows_to_insert);
\* without the table the INSERT raises sqlite3.OperationalError.
SqldbSave(rows) ==
    /\ revision = "modules"
    /\ call.op = "none"
    /\ IF table_exists
       THEN /\ LET saved == sqldb_save_currency_rates_to_db(rates, rows)
               IN  /\ Len(saved) <= MaxStore
                   /\ rates' = saved
            /\ call' = [NoCall EXCEPT !.op = "save_currency_rates_to_db", !.rows = rows]
       ELSE /\ rates' = rates
            /\ call' = [NoCall EXCEPT !.op = "save_currency_rates_to_db", !.rows = rows,
                            !.err = "OperationalError"]
    /\ UNCHANGED <<revision, table_exists, txn, reqVars>>

\* The caller of a save that returned calls it once more with the same rows.
SaveSameRowsAgain ==
    /\ call.op = "save_currency_rates_to_db"
    /\ call.err = ""
    /\ LET saved == IF revision = "app"
                    THEN app_save_currency_rates_to_db(rates, call.rows)
                    ELSE sqldb_save_currency_rates_to_db(rates, call.rows)
       IN  /\ Len(saved) <= MaxStore
           /\ rates' = saved
    /\ call' = [call EXCEPT !.repeated = TRUE]
    /\ UNCHANGED <<revision, table_exists, txn, reqVars>>

\* A caller calls get_data_from_local_db / get_data_from_sql_table; without
\* the table the SELECT raises sqlite3.OperationalError.
CallGetData(currency, start_date_str, end_date_str) ==
    /\ call.op = "none"
    /\ call' = [NoCall EXCEPT !.op = "get_data",
                    !.currency = currency,
                    !.start_date_str = start_date_str, !.end_date_str = end_date_str,
                    !.err = IF table_exists THEN "" ELSE "OperationalError",
                    !.result_rows =
                        IF ~table_exists THEN <<>>
                        ELSE IF revision = "app"
                        THEN app_get_data_from_local_db(rates, currency,
                                                        start_date_str, end_date_str)
                        ELSE sqldb_get_data_from_sql_table(rates, currency,
                                                           start_date_str, end_date_str)]
    /\ UNCHANGED <<storeVars, reqVars>>

\* The call is over; the caller goes on.
Return ==
    /\ call.op # "none"
    /\ call' = NoCall
    /\ UNCHANGED <<storeVars, reqVars>>

\* No connection holds a write transaction.
NoTxn == [owner |-> 0, rows |-> <<>>]

NoForm == [method |-> "", currency |-> "", start_date |-> <<>>, end_date |-> <<>>]

NoLocals ==
    [selected_currency |-> "", start_date_str |-> <<>>, end_date_str |-> <<>>,
     start_date |-> 0, end_date |-> 0, data_already_in_cache |-> FALSE,
     rows_to_insert |-> <<>>, currency_table |-> <<>>]

NoPage ==
    [kind |-> "none", error_message |-> "", chart_available |-> FALSE,
     currency_data |-> <<>>]

NoObs ==
    [trace |-> <<>>, table_before |-> FALSE, rates_before |-> <<>>,
     status_code |-> 0, raised |-> [type |-> "", message |-> ""], send_chart |-> FALSE]

ReqInit ==
    /\ pc = [p \in Workers |-> "idle"]
    /\ form = [p \in Workers |-> NoForm]
    /\ loc = [p \in Workers |-> NoLocals]
    /\ page = [p \in Workers |-> NoPage]
    /\ obs = [p \in Workers |-> NoObs]

\* A new database file, no request being served; either revision deployed.
StoreInit ==
    /\ revision \in {"app", "modules"}
    /\ table_exists = FALSE
    /\ rates = <<>>
    /\ txn = NoTxn
    /\ call = NoCall
    /\ active = {}
    /\ ReqInit

StoreNext ==
    \/ \E c \in Currencies, s \in Days, e \in Days : CallIsDataAlreadyInCache(c, s, e)
    \/ \E rows \in Batches : AppSave(rows)
    \/ SqldbCreateTable
    \/ \E rows \in Batches : SqldbSave(rows)
    \/ SaveSameRowsAgain
    \/ \E c \in Currencies, s \in DateStrs, e \in DateStrs : CallGetData(c, s, e)
    \/ Return

SpecStore == StoreInit /\ [][StoreNext]_vars

\* ------------------------------------------------------ custom_exceptions
NoException == [type |-> "", message |-> ""]

\* custom_exceptions.InvalidInputError(message)
InvalidInputError(message) == [type |-> "InvalidInputError", message |-> message]

\* Mutant of NBPConnectionError: `response` is optional, the exception is built.
NBPConnectionError_built(message, has_response) ==
    [type |-> "NBPConnectionError", message |-> message]

\* custom_exceptions.NBPConnectionError(message, response): `response` has no
\* default, so a call that passes the message alone raises TypeError instead
\* of building the exception.
NBPConnectionError(message, has_response) ==
    IF has_response
    THEN [type |-> "NBPConnectionError", message |-> message]
    ELSE [type |-> "TypeError",
          message |-> "__init__() missing 1 required positional argument: 'response'"]

\* requests.exceptions.RequestException raised by requests.get
RequestException == [type |-> "RequestException", message |-> "transport failure"]

\* sqlite3.OperationalError: no such table: rates
OperationalError == [type |-> "OperationalError", message |-> "no such table: rates"]

\* ------------------------------------------ strptime and strftime in full
\* ValueError raised by datetime.strptime: the text does not match the format
\* "%Y-%m-%d" or names a day the calendar does not have.
ValueError == [type |-> "ValueError", message |-> "time data does not match format '%Y-%m-%d'"]

\* datetime._days_in_month
days_in_month(year, month) ==
    IF month = 2 /\ is_leap(year) THEN 29
    ELSE <<31, 28, 31, 30, 31, 30, 31, 31, 30, 31, 30, 31>>[month]

\* Whether datetime.strptime(date_str, "%Y-%m-%d") returns. A text is the
\* sequence of its digits, its two '-' standing before the last four and the
\* last two digits (the empty sequence is the empty text). %Y matches four
\* digits and nothing shorter or longer; the month and the day must exist.
strptime_matches(date_str) ==
    /\ Len(date_str) = 8
    /\ LET year  == date_str[1] * 1000 + date_str[2] * 100 + date_str[3] * 10 + date_str[4]
           month == date_str[5] * 10 + date_str[6]
           day   == date_str[7] * 10 + date_str[8]
       IN  /\ year >= 1
           /\ month \in 1..12
           /\ day >= 1
           /\ day <= days_in_month(year, month)

\* str_to_date: the exception datetime.strptime raises, if any.
str_to_date_raised(date_str) ==
    IF strptime_matches(date_str) THEN NoException ELSE ValueError

\* The digits strftime writes for %Y. The C library of the build decides:
\* some pad the year to four digits, glibc writes the year as a plain decimal
\* number (999 for the year 999). From the year 1000 on the builds agree.
year_digits(year, pads_year) ==
    IF pads_year \/ year >= 1000
    THEN << year \div 1000, (year \div 100) % 10, (year \div 10) % 10, year % 10 >>
    ELSE IF year >= 100 THEN << year \div 100, (year \div 10) % 10, year % 10 >>
    ELSE IF year >= 10 THEN << year \div 10, year % 10 >>
    ELSE << year >>

\* date_obj.strftime("%Y-%m-%d") on a build whose C library pads the year or
\* does not; date_to_str above is this text for the years of four digits.
date_to_str_on_build(date_obj, pads_year) ==
    LET ymd == ord2ymd(date_obj)
    IN  year_digits(ymd[1], pads_year)
        \o << ymd[2] \div 10, ymd[2] % 10, ymd[3] \div 10, ymd[3] % 10 >>

\* ------------------------------------------ modules/datetime_operations.py
\* datetime_operations.add_days_to_date
add_days_to_date(date_obj, days) == date_obj + days

\* datetime_operations.date_not_weekend
date_not_weekend(date_to_check) == isoweekday(date_to_check) < 6

\* datetime_operations.define_all_days_to_check: for i in range(days_difference)
\* the day start_date + i is computed and tested, and `start_date` itself, the
\* string handed in, is appended for each day that is not of a weekend.
RECURSIVE define_all_days_to_check(_, _)
define_all_days_to_check(start_date, days_difference) ==
    IF days_difference <= 0 THEN <<>>
    ELSE LET i == days_difference - 1
             new_date == add_days_to_date(str_to_date(start_date), i)
         IN  define_all_days_to_check(start_date, i)
             \o (IF date_not_weekend(new_date) THEN <<start_date>> ELSE <<>>)

\* ------------------------------------------ direct calls of the date functions
\* Largest days_difference handed to define_all_days_to_check.
MaxDaysDifference == 10

\* The start dates of the calls: two weeks around Friday 2021-01-01.
CheckStarts == {date_to_str(d) : d \in ymd2ord(2020, 12, 28) .. ymd2ord(2021, 1, 10)}

\* The dates converted to text and back: the first and the last date of the
\* calendar, the last year of three digits and the first of four, the ends of
\* February in leap and other years, and the days of the requests.
RoundTripDays ==
    { ymd2ord(1, 1, 1), ymd2ord(999, 12, 31), ymd2ord(1000, 1, 1),
      ymd2ord(1900, 2, 28), ymd2ord(1900, 3, 1), ymd2ord(2000, 2, 29),
      ymd2ord(2020, 12, 31), ymd2ord(2021, 1, 1), ymd2ord(9999, 12, 31) } \cup Days

\* A caller calls datetime_operations.define_all_days_to_check.
CallDefineAllDaysToCheck(start_date, days_difference) ==
    /\ revision = "modules"
    /\ call.op = "none"
    /\ call' = [op |-> "define_all_days_to_check", start_date |-> start_date,
                days_difference |-> days_difference,
                returned |-> define_all_days_to_check(start_date, days_difference)]
    /\ UNCHANGED <<storeVars, reqVars>>

\* A caller calls str_to_date(date_to_str(date_obj)) on some build.
CallStrToDateOfDateToStr(date_obj, pads_year) ==
    /\ call.op = "none"
    /\ LET date_str == date_to_str_on_build(date_obj, pads_year)
       IN  call' = [op |-> "str_to_date(date_to_str)", date_obj |-> date_obj,
                    date_str |-> date_str,
                    raised |-> str_to_date_raised(date_str),
                    returned |-> IF strptime_matches(date_str)
                                 THEN <<str_to_date(date_str)>> ELSE <<>>]
    /\ UNCHANGED <<storeVars, reqVars>>

DatesNext ==
    \/ \E s \in CheckStarts, n \in 0..MaxDaysDifference : CallDefineAllDaysToCheck(s, n)
    \/ \E d \in RoundTripDays, pads_year \in BOOLEAN : CallStrToDateOfDateToStr(d, pads_year)
    \/ Return

SpecDates == StoreInit /\ [][DatesNext]_vars

\* ------------------------------------------------------ app.py: the remote
\* timedelta(days=93) of validate_user_input
MAX_RANGE_DAYS == 93

\* What requests.get can give: no response at all (it raises), or a response
\* with a status code and, with 200, the "rates" list of the JSON body.
JsonRates ==
    UNION {[1..n -> [effectiveDate : DateStrs, mid : Rates]] : n \in 0..MaxFetched}

RatesResponses ==
    {[raises |-> TRUE, status_code |-> 0, rates |-> <<>>]}
    \cup {[raises |-> FALSE, status_code |-> st, rates |-> <<>>] : st \in {404, 500, 503}}
    \cup {[raises |-> FALSE, status_code |-> 200, rates |-> j] : j \in JsonRates}

TablesResponses ==
    {[raises |-> TRUE, status_code |-> 0], [raises |-> FALSE, status_code |-> 200],
     [raises |-> FALSE, status_code |-> 500]}

\* app.py fetch_available_currencies: the exception it ends with, if any.
fetch_available_currencies(response) ==
    IF response.raises THEN RequestException
    ELSE IF response.status_code # 200
    THEN NBPConnectionError(
             "Failed to fetch available currencies from NBP API, check connection with NBP API.",
             FALSE)
    ELSE NoException

\* Mutant of fetch_currency_rates: a 404 is taken for an empty list of rates.
fetch_currency_rates_404_as_empty(response) ==
    IF response.raises
    THEN [raised |-> RequestException, json |-> <<>>]
    ELSE IF response.status_code \notin {200, 404}
    THEN [raised |-> NBPConnectionError(<<"Failure, status code: ", response.status_code, ".">>,
                                        FALSE),
          json |-> <<>>]
    ELSE [raised |-> NoException, json |-> response.rates]

\* app.py fetch_currency_rates: the exception it raises, or the JSON it returns.
fetch_currency_rates(response) ==
    IF response.raises
    THEN [raised |-> RequestException, json |-> <<>>]
    ELSE IF response.status_code = 404
    THEN [raised |-> NBPConnectionError(
                         "Error 404: No data found for selected currency and/or time frame.",
                         FALSE),
          json |-> <<>>]
    ELSE IF response.status_code # 200
    THEN [raised |-> NBPConnectionError(<<"Failure, status code: ", response.status_code, ".">>,
                                        FALSE),
          json |-> <<>>]
    ELSE [raised |-> NoException, json |-> response.rates]

\* app.py create_rows_to_insert
create_rows_to_insert(currency_rates, currency) ==
    [i \in 1..Len(currency_rates) |->
        [date |-> currency_rates[i].effectiveDate, currency |-> currency,
         rate |-> currency_rates[i].mid]]

\* Mutant of validate_user_input: the comparison of the two dates is missing.
validate_accepting_inverted_range(request_form) ==
    IF request_form.currency = ""
    THEN InvalidInputError("Please select a currency.")
    ELSE IF str_to_date_raised(request_form.start_date) # NoException
    THEN str_to_date_raised(request_form.start_date)
    ELSE IF str_to_date_raised(request_form.end_date) # NoException
    THEN str_to_date_raised(request_form.end_date)
    ELSE IF str_to_date(request_form.end_date) - str_to_date(request_form.start_date)
            > 93
    THEN InvalidInputError("Maximum date range is 93 calendar days.")
    ELSE NoException

\* app.py validate_user_input: the exception it raises, if any.
validate_user_input(request_form) ==
    IF request_form.currency = ""
    THEN InvalidInputError("Please select a currency.")
    ELSE IF str_to_date_raised(request_form.start_date) # NoException
    THEN str_to_date_raised(request_form.start_date)
    ELSE IF str_to_date_raised(request_form.end_date) # NoException
    THEN str_to_date_raised(request_form.end_date)
    ELSE IF str_to_date(request_form.start_date) > str_to_date(request_form.end_date)
    THEN InvalidInputError("'Start Date' cannot be after 'End Date'.")
    ELSE IF str_to_date(request_form.end_date) - str_to_date(request_form.start_date)
            > MAX_RANGE_DAYS
    THEN InvalidInputError("Maximum date range is 93 calendar days.")
    ELSE NoException

\* ------------------------------------------------------- app.py: index
ErrorPage(message) ==
    [kind |-> "error", error_message |-> message, chart_available |-> FALSE,
     currency_data |-> <<>>]

\* The exception left index: Flask answers, no template is rendered.
EscapedPage ==
    [kind |-> "escaped", error_message |-> "", chart_available |-> FALSE,
     currency_data |-> <<>>]

\* index, lines 315-324: the handlers around fetch_available_currencies.
index_except_currencies(exc) ==
    IF exc.type \in {"NBPConnectionError", "InvalidInputError"}
    THEN ErrorPage(exc.message)
    ELSE EscapedPage

\* index, lines 375-392: the handlers around the POST branch.
index_except(exc) ==
    IF exc.type \in {"NBPConnectionError", "InvalidInputError"}
    THEN ErrorPage(exc.message)
    ELSE ErrorPage("An unexpected error occurred, please try again.")

Event(ev) == [ev |-> ev, currency |-> "", start_date_str |-> <<>>, end_date_str |-> <<>>]

Forms ==
    {[method |-> "GET", currency |-> "", start_date |-> <<>>, end_date |-> <<>>]}
    \cup [method : {"POST"}, currency : Currencies \cup {""},
          start_date : DateStrs, end_date : DateStrs]

\* index, lines 312-332: a request arrives; the available currencies are
\* fetched; a GET is answered with the empty form.
ReceiveRequestFrom(p, requests) ==
    /\ p \in active
    /\ pc[p] = "idle"
    /\ \E request \in requests, response \in TablesResponses :
        LET exc == fetch_available_currencies(response) IN
        /\ form' = [form EXCEPT ![p] = request]
        /\ obs' = [obs EXCEPT ![p] = [NoObs EXCEPT !.table_before = table_exists,
                                                   !.rates_before = rates,
                                                   !.raised = exc]]
        /\ IF exc # NoException
           THEN /\ page' = [page EXCEPT ![p] = index_except_currencies(exc)]
                /\ pc' = [pc EXCEPT ![p] = "done"]
           ELSE IF request.method = "GET"
           THEN /\ page' = [page EXCEPT ![p] = [NoPage EXCEPT !.kind = "form"]]
                /\ pc' = [pc EXCEPT ![p] = "done"]
           ELSE /\ page' = page
                /\ pc' = [pc EXCEPT ![p] = "validate"]
    /\ UNCHANGED <<storeVars, call, active, loc>>

\* A request of any client.
ReceiveRequest(p) == ReceiveRequestFrom(p, Forms)

\* index, lines 334-341: validate_user_input and the two str_to_date.
ValidateInput(p) ==
    /\ p \in active
    /\ pc[p] = "validate"
    /\ LET exc == validate_user_input(form[p]) IN
        IF exc # NoException
        THEN /\ page' = [page EXCEPT ![p] = index_except(exc)]
             /\ obs' = [obs EXCEPT ![p].raised = exc]
             /\ pc' = [pc EXCEPT ![p] = "done"]
             /\ loc' = loc
        ELSE /\ loc' = [loc EXCEPT ![p] =
                            [NoLocals EXCEPT !.selected_currency = form[p].currency,
                                             !.start_date_str = form[p].start_date,
                                             !.end_date_str = form[p].end_date,
                                             !.start_date = str_to_date(form[p].start_date),
                                             !.end_date = str_to_date(form[p].end_date)]]
             /\ pc' = [pc EXCEPT ![p] = "cache_check"]
             /\ UNCHANGED <<page, obs>>
    /\ UNCHANGED <<storeVars, call, active, form>>

\* index, lines 343-347: is_data_already_in_cache.
CacheCheck(p) ==
    /\ p \in active
    /\ pc[p] = "cache_check"
    /\ LET cached == app_is_data_already_in_cache(table_exists, rates,
                         loc[p].selected_currency, loc[p].start_date, loc[p].end_date)
       IN  /\ loc' = [loc EXCEPT ![p].data_already_in_cache = cached]
           /\ pc' = [pc EXCEPT ![p] = IF cached THEN "read" ELSE "fetch"]
    /\ obs' = [obs EXCEPT ![p].trace = Append(@, Event("check"))]
    /\ UNCHANGED <<storeVars, call, active, form, page>>

\* index, lines 348-351: fetch_currency_rates and create_rows_to_insert.
FetchRatesFrom(p, responses) ==
    /\ p \in active
    /\ pc[p] = "fetch"
    /\ \E response \in responses :
        LET fetched == fetch_currency_rates(response)
            rows == create_rows_to_insert(fetched.json, loc[p].selected_currency)
        IN
        /\ Len(app_save_currency_rates_to_db(rates, rows)) <= MaxStore
        /\ obs' = [obs EXCEPT ![p].trace =
                        Append(@, [ev |-> "fetch",
                                   currency |-> loc[p].selected_currency,
                                   start_date_str |-> loc[p].start_date_str,
                                   end_date_str |-> loc[p].end_date_str]),
                              ![p].status_code = response.status_code,
                              ![p].raised = fetched.raised]
        /\ IF fetched.raised # NoException
           THEN /\ page' = [page EXCEPT ![p] = index_except(fetched.raised)]
                /\ pc' = [pc EXCEPT ![p] = "done"]
                /\ loc' = loc
           ELSE /\ loc' = [loc EXCEPT ![p].rows_to_insert = rows]
                /\ pc' = [pc EXCEPT ![p] = "save"]
                /\ page' = page
    /\ UNCHANGED <<storeVars, call, active, form>>

\* The remote answers with any response.
FetchRates(p) == FetchRatesFrom(p, RatesResponses)

\* index, line 352: save_currency_rates_to_db, one committed transaction.
SaveRates(p) ==
    /\ p \in active
    /\ pc[p] = "save"
    /\ table_exists' = TRUE
    /\ rates' = app_save_currency_rates_to_db(rates, loc[p].rows_to_insert)
    /\ obs' = [obs EXCEPT ![p].trace = Append(@, Event("save"))]
    /\ pc' = [pc EXCEPT ![p] = "read"]
    /\ UNCHANGED <<revision, txn, call, active, form, loc, page>>

\* index, lines 354-356: get_data_from_local_db.
ReadLocalDb(p) ==
    /\ p \in active
    /\ pc[p] = "read"
    /\ IF table_exists
       THEN /\ loc' = [loc EXCEPT ![p].currency_table =
                           app_get_data_from_local_db(rates, loc[p].selected_currency,
                               loc[p].start_date_str, loc[p].end_date_str)]
            /\ obs' = [obs EXCEPT ![p].trace = Append(@, Event("read"))]
            /\ pc' = [pc EXCEPT ![p] = "render"]
            /\ page' = page
       ELSE /\ obs' = [obs EXCEPT ![p].trace = Append(@, Event("read")),
                                  ![p].raised = OperationalError]
            /\ page' = [page EXCEPT ![p] = index_except(OperationalError)]
            /\ pc' = [pc EXCEPT ![p] = "done"]
            /\ loc' = loc
    /\ UNCHANGED <<storeVars, call, active, form>>

\* index, lines 358-373: send_chart is registered and the page is rendered.
Render(p) ==
    /\ p \in active
    /\ pc[p] = "render"
    /\ page' = [page EXCEPT ![p] = [kind |-> "chart", error_message |-> "",
                                    chart_available |-> TRUE,
                                    currency_data |-> loc[p].currency_table]]
    /\ obs' = [obs EXCEPT ![p].send_chart = TRUE]
    /\ pc' = [pc EXCEPT ![p] = "done"]
    /\ UNCHANGED <<storeVars, call, active, form, loc>>

\* The response is sent; the worker is free for the next request.
Finish(p) ==
    /\ p \in active
    /\ pc[p] = "done"
    /\ pc' = [pc EXCEPT ![p] = "idle"]
    /\ form' = [form EXCEPT ![p] = NoForm]
    /\ loc' = [loc EXCEPT ![p] = NoLocals]
    /\ page' = [page EXCEPT ![p] = NoPage]
    /\ obs' = [obs EXCEPT ![p] = NoObs]
    /\ UNCHANGED <<storeVars, call, active>>

\* app.py on a new database file, one worker serving one request at a time.
Init ==
    /\ revision = "app"
    /\ table_exists = FALSE
    /\ rates = <<>>
    /\ txn = NoTxn
    /\ call = NoCall
    /\ active = {1}
    /\ ReqInit

Next ==
    \/ \E p \in Workers : ReceiveRequest(p)
    \/ \E p \in Workers : ValidateInput(p)
    \/ \E p \in Workers : CacheCheck(p)
    \/ \E p \in Workers : FetchRates(p)
    \/ \E p \in Workers : SaveRates(p)
    \/ \E p \in Workers : ReadLocalDb(p)
    \/ \E p \in Workers : Render(p)
    \/ \E p \in Workers : Finish(p)

Spec == Init /\ [][Next]_vars

\* ------------------------------------------ app.py: two requests at a time
\* save_currency_rates_to_db step by step, as other connections can observe
\* it. sqlite3 runs CREATE TABLE outside a transaction; the INSERT opens the
\* transaction that `with conn:` commits after the DELETE. SQLite admits one
\* write transaction at a time: the INSERT of another connection waits.

\* Mutant of uncommitted: every statement is written through to the file.
written_through(committed, working) == working

\* The rows other connections read while a transaction holds `working`.
uncommitted(committed, working) == committed

\* save_currency_rates_to_db, app.py line 164: create_table.
CreateTable(p) ==
    /\ p \in active
    /\ pc[p] = "save"
    /\ table_exists' = TRUE
    /\ pc' = [pc EXCEPT ![p] = "insert"]
    /\ UNCHANGED <<revision, rates, txn, call, active, form, loc, page, obs>>

\* save_currency_rates_to_db, app.py line 166: executemany INSERT.
InsertRows(p) ==
    /\ p \in active
    /\ pc[p] = "insert"
    /\ txn.owner = 0
    /\ LET working == rates \o loc[p].rows_to_insert
       IN  /\ txn' = [owner |-> p, rows |-> working]
           /\ rates' = uncommitted(rates, working)
    /\ pc' = [pc EXCEPT ![p] = "delete"]
    /\ UNCHANGED <<revision, table_exists, call, active, form, loc, page, obs>>

\* save_currency_rates_to_db, app.py lines 169-181: DELETE of duplicated rows.
DeleteDuplicatedRows(p) ==
    /\ p \in active
    /\ pc[p] = "delete"
    /\ txn.owner = p
    /\ LET working == remove_duplicated_rows(txn.rows)
       IN  /\ txn' = [txn EXCEPT !.rows = working]
           /\ rates' = uncommitted(rates, working)
    /\ pc' = [pc EXCEPT ![p] = "commit"]
    /\ UNCHANGED <<revision, table_exists, call, active, form, loc, page, obs>>

\* save_currency_rates_to_db, app.py line 162: `with conn:` commits on exit.
Commit(p) ==
    /\ p \in active
    /\ pc[p] = "commit"
    /\ txn.owner = p
    /\ rates' = txn.rows
    /\ txn' = NoTxn
    /\ obs' = [obs EXCEPT ![p].trace = Append(@, Event("save"))]
    /\ pc' = [pc EXCEPT ![p] = "read"]
    /\ UNCHANGED <<revision, table_exists, call, active, form, loc, page>>

\* What the rates endpoint publishes for a range: one row for each business
\* day, in ascending order.
published_rates(start_date, end_date, mid) ==
    LET all_days == [i \in 1..(end_date - start_date + 1) |-> start_date + (i - 1)]
        weekdays == SelectSeq(all_days, LAMBDA d : isoweekday(d) < 6)
    IN  [i \in 1..Len(weekdays) |-> [effectiveDate |-> date_to_str(weekdays[i]),
                                     mid |-> mid]]

\* The answers of the remote to the fetch of worker p: a failure, or the
\* published rows of the requested range.
PairResponses(p) ==
    {o \in RatesResponses : o.rates = <<>>}
    \cup {[raises |-> FALSE, status_code |-> 200,
           rates |-> published_rates(loc[p].start_date, loc[p].end_date, mid)] :
             mid \in Rates}

\* Two clients post the same form: the second request is a copy of the first.
PairForms ==
    [method : {"POST"}, currency : {"USD"}, start_date : DateStrs, end_date : DateStrs]

PairRequests(p) ==
    IF \E q \in active \ {p} : form[q] # NoForm
    THEN {form[q] : q \in {w \in active \ {p} : form[w] # NoForm}}
    ELSE PairForms

\* The stores the two requests can find: no table, or a table with at most
\* one row.
PairStores ==
    {[table_exists |-> FALSE, rates |-> <<>>], [table_exists |-> TRUE, rates |-> <<>>]}
    \cup {[table_exists |-> TRUE, rates |-> <<r>>] : r \in RowsOf("USD")}

\* app.py with two workers, each serving one request.
PairInit ==
    /\ revision = "app"
    /\ \E s \in PairStores : table_exists = s.table_exists /\ rates = s.rates
    /\ txn = NoTxn
    /\ call = NoCall
    /\ active = {1, 2}
    /\ ReqInit

PairNext ==
    \/ \E p \in Workers : ReceiveRequestFrom(p, PairRequests(p))
    \/ \E p \in Workers : ValidateInput(p)
    \/ \E p \in Workers : CacheCheck(p)
    \/ \E p \in Workers : FetchRatesFrom(p, PairResponses(p))
    \/ \E p \in Workers : CreateTable(p)
    \/ \E p \in Workers : InsertRows(p)
    \/ \E p \in Workers : DeleteDuplicatedRows(p)
    \/ \E p \in Workers : Commit(p)
    \/ \E p \in Workers : ReadLocalDb(p)
    \/ \E p \in Workers : Render(p)

SpecPair == PairInit /\ [][PairNext]_vars

\* --------------------------------------- app.py: the values of the form
\* Texts a client can post as a date that strptime refuses: the empty text,
\* "2021-02-30", "2021-13-01" and "21-01-05".
MalformedDateStrs ==
    { <<>>, <<2,0,2,1,0,2,3,0>>, <<2,0,2,1,1,3,0,1>>, <<2,1,0,1,0,5>> }

\* A date more than 93 days after every day of Days: Friday 2021-05-07.
FarDateStrs == {date_to_str(ymd2ord(2021, 2, 2) + 94)}

\* The forms a client can post: a currency or none, each date any text.
PostedForms ==
    [method : {"POST"}, currency : {"USD", ""},
     start_date : DateStrs \cup FarDateStrs \cup MalformedDateStrs,
     end_date : DateStrs \cup FarDateStrs \cup MalformedDateStrs]

\* app.py on a new database file, one worker, the posted forms of any client.
FormsNext ==
    \/ \E p \in Workers : ReceiveRequestFrom(p, PostedForms)
    \/ \E p \in Workers : ValidateInput(p)
    \/ \E p \in Workers : CacheCheck(p)
    \/ \E p \in Workers : FetchRatesFrom(p, PairResponses(p))
    \/ \E p \in Workers : SaveRates(p)
    \/ \E p \in Workers : ReadLocalDb(p)
    \/ \E p \in Workers : Render(p)
    \/ \E p \in Workers : Finish(p)

SpecForms == Init /\ [][FormsNext]_vars

\* ------------------------------------------- validation of the date range
\* config.MAX_DATE_RANGE, the days of datetime_operations.get_max_date_range()
MAX_DATE_RANGE == 93

\* datetime_operations.start_date_after_end_date
start_date_after_end_date(start_date, end_date) ==
    str_to_date(start_date) > str_to_date(end_date)

\* datetime_operations.max_range_exceeded
max_range_exceeded(start_date, end_date, max_range) ==
    str_to_date(end_date) - str_to_date(start_date) > max_range

\* Mutant of user_input_validate: a range of max_range days is refused too.
validate_refusing_max_range(request_form) ==
    IF request_form.currency = ""
    THEN InvalidInputError("Please select a currency.")
    ELSE IF start_date_after_end_date(request_form.start_date, request_form.end_date)
    THEN InvalidInputError("'Start Date' cannot be after 'End Date'.")
    ELSE IF str_to_date(request_form.end_date) - str_to_date(request_form.start_date)
            >= MAX_DATE_RANGE
    THEN InvalidInputError("Maximum date range is 93 calendar days.")
    ELSE NoException

\* user_input_class.validate (and the Validator classes, which make the same
\* three checks in the same order): the exception it raises, if any.
user_input_validate(request_form) ==
    IF request_form.currency = ""
    THEN InvalidInputError("Please select a currency.")
    ELSE IF str_to_date_raised(request_form.start_date) # NoException
    THEN str_to_date_raised(request_form.start_date)
    ELSE IF str_to_date_raised(request_form.end_date) # NoException
    THEN str_to_date_raised(request_form.end_date)
    ELSE IF start_date_after_end_date(request_form.start_date, request_form.end_date)
    THEN InvalidInputError("'Start Date' cannot be after 'End Date'.")
    ELSE IF max_range_exceeded(request_form.start_date, request_form.end_date,
                               MAX_DATE_RANGE)
    THEN InvalidInputError("Maximum date range is 93 calendar days.")
    ELSE NoException

\* The dates of the forms handed to the validation: the days of the window and
\* the days at the far end of the greatest range that starts in it.
ValidateDays ==
    Days \cup {d + k : d \in Days, k \in (MAX_DATE_RANGE - 1)..(MAX_DATE_RANGE + 1)}

\* A caller calls the validation of its revision with the form that a browser
\* builds from the two dates.
CallValidate(currency, start_date, end_date) ==
    /\ call.op = "none"
    /\ LET request_form == [method |-> "POST", currency |-> currency,
                            start_date |-> date_to_str(start_date),
                            end_date |-> date_to_str(end_date)]
       IN  call' = [op |-> "validate", currency |-> currency,
                    start_date |-> start_date, end_date |-> end_date,
                    request_form |-> request_form,
                    raised |-> IF revision = "app"
                               THEN validate_user_input(request_form)
                               ELSE user_input_validate(request_form)]
    /\ UNCHANGED <<storeVars, reqVars>>

ValidateNext ==
    \/ \E c \in Currencies \cup {""}, s \in ValidateDays, e \in ValidateDays :
           CallValidate(c, s, e)
    \/ Return

SpecValidate == StoreInit /\ [][ValidateNext]_vars

\* ------------------------------------- modules/nbp_api_communication.py
\* config.REQUEST_TIMEOUT
REQUEST_TIMEOUT == 60

\* config.NBP_TABLES_URL
NBP_TABLES_URL == <<"https://api.nbp.pl/api/exchangerates/tables/a">>

\* nbp_api_communication.build_url: config.NBP_RATES_URL and the three parts.
build_url(currency, start_date, end_date) ==
    <<"https://api.nbp.pl/api/exchangerates/rates/a/", currency, start_date, end_date>>

\* Mutant of connect_with_nbp_api: a GET that raised is sent a second time.
connect_with_retry(url, error_message, outcome) ==
    [gets |-> IF outcome.raises
              THEN <<[url |-> url, timeout |-> REQUEST_TIMEOUT],
                     [url |-> url, timeout |-> REQUEST_TIMEOUT]>>
              ELSE <<[url |-> url, timeout |-> REQUEST_TIMEOUT]>>,
     raised |-> IF outcome.raises THEN NBPConnectionError(error_message, FALSE)
                ELSE NoException,
     returned |-> IF outcome.raises THEN <<>> ELSE <<outcome>>]

\* nbp_api_communication.connect_with_nbp_api; `outcome` is what requests.get
\* does with the request. The GETs sent, the exception raised, the response
\* returned (none when it raised).
connect_with_nbp_api(url, error_message, outcome) ==
    [gets |-> <<[url |-> url, timeout |-> REQUEST_TIMEOUT]>>,
     raised |-> IF outcome.raises THEN NBPConnectionError(error_message, FALSE)
                ELSE NoException,
     returned |-> IF outcome.raises THEN <<>> ELSE <<outcome>>]

\* nbp_api_communication.check_nbp_response: the exception it raises, if any.
check_nbp_response(response, general_error_message, error_404_message) ==
    IF response.status_code = 404
    THEN NBPConnectionError(error_404_message, FALSE)
    ELSE IF response.status_code # 200
    THEN NBPConnectionError(general_error_message, FALSE)
    ELSE NoException

\* nbp_api_communication.check_nbp_response: the records it writes to the
\* logger of its module, in order. The 404 branch raises before any record;
\* another failing status writes one warning; status 200 writes one info.
check_nbp_response_log(response) ==
    IF response.status_code = 404
    THEN <<>>
    ELSE IF response.status_code # 200
    THEN <<"warning">>
    ELSE <<"info">>

\* nbp_api_communication.convert_nbp_response_to_list_of_exchange_rates
convert_nbp_response_to_list_of_exchange_rates(response_json, currency) ==
    [i \in 1..Len(response_json) |->
        [date |-> response_json[i].effectiveDate, currency |-> currency,
         rate |-> response_json[i].mid]]

\* nbp_api_communication.fetch_currency_rates
nbp_fetch_currency_rates(currency, start_date, end_date, outcome) ==
    LET general_error_message ==
            "Failed to fetch currency exchange rates from NBP API, check connection with NBP API."
        error_404_message ==
            "Error 404: No data found for selected currency and/or time frame."
        connected == connect_with_nbp_api(build_url(currency, start_date, end_date),
                                          general_error_message, outcome)
        checked == check_nbp_response(outcome, general_error_message, error_404_message)
    IN  IF connected.raised # NoException
        THEN [gets |-> connected.gets, raised |-> connected.raised, rows |-> <<>>]
        ELSE IF checked # NoException
        THEN [gets |-> connected.gets, raised |-> checked, rows |-> <<>>]
        ELSE [gets |-> connected.gets, raised |-> NoException,
              rows |-> convert_nbp_response_to_list_of_exchange_rates(outcome.rates,
                                                                      currency)]

\* nbp_api_communication.fetch_available_currencies: one message for all failures.
nbp_fetch_available_currencies(outcome) ==
    LET error_message ==
            "Failed to fetch available currencies from NBP API, check connection with NBP API."
        connected == connect_with_nbp_api(NBP_TABLES_URL, error_message, outcome)
        checked == check_nbp_response(outcome, error_message, error_message)
    IN  IF connected.raised # NoException
        THEN [gets |-> connected.gets, raised |-> connected.raised]
        ELSE [gets |-> connected.gets, raised |-> checked]

\* Python's `<` of two str values: by code point, a proper prefix first. A
\* currency code of the table is the sequence of the alphabet positions of its
\* capital letters (A = 1 .. Z = 26).
str_lt(a, b) ==
    \/ \E i \in 1..Len(a) :
           /\ i <= Len(b)
           /\ a[i] < b[i]
           /\ \A j \in 1..(i - 1) : a[j] = b[j]
    \/ /\ Len(a) < Len(b)
       /\ \A j \in 1..Len(a) : a[j] = b[j]

\* One step of list.sort(): the value goes behind every value not greater.
RECURSIVE insert_sorted(_, _)
insert_sorted(value, sorted) ==
    IF sorted = <<>> THEN <<value>>
    ELSE IF str_lt(value, Head(sorted)) THEN <<value>> \o sorted
    ELSE <<Head(sorted)>> \o insert_sorted(value, Tail(sorted))

\* list.sort() of a list of str: ascending
RECURSIVE list_sort(_)
list_sort(values) ==
    IF values = <<>> THEN <<>>
    ELSE insert_sorted(values[Len(values)], list_sort(SubSeq(values, 1, Len(values) - 1)))

\* Mutant of get_available_currencies_from: the list is not sorted.
get_available_currencies_unsorted(table_rates) ==
    [i \in 1..Len(table_rates) |-> table_rates[i].code]

\* nbp_api_communication.get_available_currencies_from (the same two lines
\* end fetch_available_currencies of app.py): the codes of the entries of
\* `rates`, the list of the table, sorted.
get_available_currencies_from(table_rates) ==
    list_sort([i \in 1..Len(table_rates) |-> table_rates[i].code])

\* --------------------------------------- direct calls of the remote client
\* What requests.get can do with the GET of the tables endpoint.
TablesOutcomes == {o \in RatesResponses : o.rates = <<>>}

ErrorMessages ==
    {"Failed to fetch currency exchange rates from NBP API, check connection with NBP API.",
     "Failed to fetch available currencies from NBP API, check connection with NBP API."}

\* A caller calls nbp_api_communication.connect_with_nbp_api(url, error_message).
CallConnectWithNbpApi(url, error_message, outcome) ==
    /\ revision = "modules"
    /\ call.op = "none"
    /\ LET connected == connect_with_nbp_api(url, error_message, outcome)
       IN  call' = [op |-> "connect_with_nbp_api", url |-> url,
                    error_message |-> error_message, outcome |-> outcome,
                    gets |-> connected.gets, raised |-> connected.raised,
                    returned |-> connected.returned]
    /\ UNCHANGED <<storeVars, reqVars>>

\* A caller calls nbp_api_communication.check_nbp_response on a response.
CallCheckNbpResponse(response, general_error_message, error_404_message) ==
    /\ revision = "modules"
    /\ call.op = "none"
    /\ call' = [op |-> "check_nbp_response", response |-> response,
                general_error_message |-> general_error_message,
                error_404_message |-> error_404_message,
                raised |-> check_nbp_response(response, general_error_message,
                                              error_404_message),
                log |-> check_nbp_response_log(response)]
    /\ UNCHANGED <<storeVars, reqVars>>

\* Longest "rates" list of the table of the remote tables endpoint.
MaxTable == 3

\* The codes CHF, EUR, UAH and USD.
TableCodes == { <<3, 8, 6>>, <<5, 21, 18>>, <<21, 1, 8>>, <<21, 19, 4>> }

\* The "rates" lists of the table: entries in any order, a code may recur.
RECURSIVE TablesOfLength(_)
TablesOfLength(n) ==
    IF n = 0 THEN {<<>>}
    ELSE {Append(t, [code |-> c, mid |-> 1]) : t \in TablesOfLength(n - 1), c \in TableCodes}

TableRates == UNION {TablesOfLength(n) : n \in 0..MaxTable}

\* A caller calls get_available_currencies_from(rates).
CallGetAvailableCurrenciesFrom(table_rates) ==
    /\ call.op = "none"
    /\ call' = [op |-> "get_available_currencies_from", rates |-> table_rates,
                returned |-> get_available_currencies_from(table_rates)]
    /\ UNCHANGED <<storeVars, reqVars>>

\* The record of a call of fetch_currency_rates of the deployed revision.
fetch_currency_rates_call(currency, start_date, end_date, outcome) ==
    IF revision = "app"
    THEN LET fetched == fetch_currency_rates(outcome)
         IN  [op |-> "fetch_currency_rates", currency |-> currency,
              start_date_str |-> start_date, end_date_str |-> end_date,
              outcome |-> outcome,
              gets |-> <<[url |-> build_url(currency, start_date, end_date),
                          timeout |-> REQUEST_TIMEOUT]>>,
              raised |-> fetched.raised,
              rows |-> create_rows_to_insert(fetched.json, currency),
              again |-> FALSE]
    ELSE LET fetched == nbp_fetch_currency_rates(currency, start_date, end_date, outcome)
         IN  [op |-> "fetch_currency_rates", currency |-> currency,
              start_date_str |-> start_date, end_date_str |-> end_date,
              outcome |-> outcome, gets |-> fetched.gets,
              raised |-> fetched.raised, rows |-> fetched.rows, again |-> FALSE]

\* A caller calls fetch_currency_rates(currency, start_date, end_date).
CallFetchCurrencyRates(currency, start_date, end_date, outcome) ==
    /\ call.op = "none"
    /\ call' = fetch_currency_rates_call(currency, start_date, end_date, outcome)
    /\ UNCHANGED <<storeVars, reqVars>>

\* The caller makes the same call once more; the remote may answer otherwise.
FetchSameRatesAgain(outcome) ==
    /\ call.op = "fetch_currency_rates"
    /\ ~call.again
    /\ call' = [fetch_currency_rates_call(call.currency, call.start_date_str,
                                          call.end_date_str, outcome)
                    EXCEPT !.again = TRUE]
    /\ UNCHANGED <<storeVars, reqVars>>

\* A caller calls fetch_available_currencies().
CallFetchAvailableCurrencies(outcome) ==
    /\ call.op = "none"
    /\ call' = [op |-> "fetch_available_currencies", outcome |-> outcome,
                gets |-> <<[url |-> NBP_TABLES_URL, timeout |-> REQUEST_TIMEOUT]>>,
                raised |-> IF revision = "app"
                           THEN fetch_available_currencies(outcome)
                           ELSE nbp_fetch_available_currencies(outcome).raised]
    /\ UNCHANGED <<storeVars, reqVars>>

RemoteNext ==
    \/ \E url \in {NBP_TABLES_URL} \cup
                  {build_url(c, s, e) : c \in Currencies, s \in DateStrs, e \in DateStrs},
          m \in ErrorMessages, o \in TablesOutcomes :
           CallConnectWithNbpApi(url, m, o)
    \/ \E c \in Currencies, s \in DateStrs, e \in DateStrs, o \in RatesResponses :
           CallFetchCurrencyRates(c, s, e, o)
    \/ \E o \in RatesResponses : FetchSameRatesAgain(o)
    \/ \E o \in TablesOutcomes : CallFetchAvailableCurrencies(o)
    \/ \E r \in {o \in TablesOutcomes : ~o.raises}, g \in ErrorMessages :
           CallCheckNbpResponse(r, g, "Error 404: No data found for selected currency and/or time frame.")
    \/ \E t \in TableRates : CallGetAvailableCurrenciesFrom(t)
    \/ Return

SpecRemote == StoreInit /\ [][RemoteNext]_vars

\* ------------------------------------------------ properties of the store
\* Saturday or Sunday, from the ordinal (ordinal 1 was a Monday).
IsWeekend(d) == d % 7 \in {6, 0}

\* The table holds a row of the currency for calendar day d.
HasRow(store, currency, d) ==
    \E i \in 1..Len(store) :
        store[i].currency = currency /\ str_to_date(store[i].date) = d

NoDuplicateKeys(store) ==
    \A i \in 1..Len(store) : \A j \in 1..Len(store) :
        same_key(store[i], store[j]) => i = j

SaveReturned(c) == c.op = "save_currency_rates_to_db" /\ c.err = ""

\* C1: the cache-sufficiency check returns True if and only if every
\* non-weekend date d with start_date <= d <= end_date (both ends included)
\* has a stored row of the requested currency.
C1_SufficientIffEveryBusinessDayStored ==
    call.op = "is_data_already_in_cache" =>
        (call.result_bool <=>
            \A d \in call.start_date..call.end_date :
                ~IsWeekend(d) => HasRow(rates, call.currency, d))

\* C7: a save called a second time with the same rows leaves the table as
\* the first call left it, with no key stored twice.
C7_SaveTwiceIsSaveOnce ==
    [][(SaveReturned(call) /\ SaveReturned(call') /\ call'.rows = call.rows)
          => (rates' = rates /\ NoDuplicateKeys(rates'))]_vars

\* C7 witness: a non-empty batch was saved twice in a row.
C7_Witness ==
    /\ SaveReturned(call)
    /\ call.repeated
    /\ Len(call.rows) > 0
    /\ \A i \in 1..Len(call.rows) : HasRow(rates, call.rows[i].currency,
                                           str_to_date(call.rows[i].date))

\* C8: when a row is saved for a key that holds a row with a different rate,
\* the rate stored after the save is the one written last for that key.
C8_LastWriteWins ==
    [][SaveReturned(call') =>
          \A i \in 1..Len(call'.rows) :
              ( /\ \E j \in 1..Len(rates) :
                       same_key(rates[j], call'.rows[i])
                       /\ rates[j].rate # call'.rows[i].rate
                /\ \A k \in (i + 1)..Len(call'.rows) :
                       ~same_key(call'.rows[k], call'.rows[i]) )
              => \E j \in 1..Len(rates') : rates'[j] = call'.rows[i]]_vars

InQuery(store, i, c) ==
    /\ store[i].currency = c.currency
    /\ str_to_date(c.start_date_str) <= str_to_date(store[i].date)
    /\ str_to_date(store[i].date) <= str_to_date(c.end_date_str)

\* C10: the query returns exactly the stored rows of the requested currency
\* with start_date <= date <= end_date, in ascending order of date.
C10_QueryExactAndAscending ==
    (call.op = "get_data" /\ call.err = "") =>
        LET res == call.result_rows IN
        /\ \A k \in 1..Len(res) :
               \E i \in 1..Len(rates) :
                   InQuery(rates, i, call) /\ res[k] = <<rates[i].date, rates[i].rate>>
        /\ \A i \in 1..Len(rates) :
               InQuery(rates, i, call) =>
                   \E k \in 1..Len(res) : res[k] = <<rates[i].date, rates[i].rate>>
        /\ Len(res) = Cardinality({i \in 1..Len(rates) : InQuery(rates, i, call)})
        /\ \A k \in 1..Len(res) : \A l \in 1..Len(res) :
               k < l => str_to_date(res[k][1]) < str_to_date(res[l][1])

\* C10 witness: a query answered with two rows that the table holds in the
\* opposite order, across the month boundary.
C10_Witness ==
    /\ call.op = "get_data" /\ call.err = ""
    /\ Len(call.result_rows) = 2
    /\ Len(rates) = 2
    /\ str_to_date(rates[1].date) > str_to_date(rates[2].date)
    /\ call.result_rows[1][1][6] # call.result_rows[2][1][6]

\* ------------------------------------------------ properties of a request
HasEvent(p, ev) == \E i \in 1..Len(obs[p].trace) : obs[p].trace[i].ev = ev

FetchEvents(p) == {i \in 1..Len(obs[p].trace) : obs[p].trace[i].ev = "fetch"}

\* The request of worker p was a valid POST: it got to the cache check.
ValidPost(p) == HasEvent(p, "check")

\* The business days of the requested range, both ends included.
RequestedBusinessDays(p) ==
    {d \in loc[p].start_date..loc[p].end_date : ~IsWeekend(d)}

\* Every business day of the requested range had a stored row of the
\* currency when the request arrived.
WasCovered(p) ==
    \A d \in RequestedBusinessDays(p) :
        HasRow(obs[p].rates_before, loc[p].selected_currency, d)

StoreUntouched(p) ==
    rates = obs[p].rates_before /\ table_exists = obs[p].table_before

\* C2: a valid POST with a business day of the inclusive range missing from
\* the store makes exactly one remote fetch, for the entire requested range,
\* and its rows are saved before the final read of the store.
C2_OneFetchWhenBusinessDayMissing ==
    \A p \in active :
        (pc[p] = "done" /\ ValidPost(p) /\ ~WasCovered(p)) =>
            /\ Cardinality(FetchEvents(p)) = 1
            /\ \A i \in FetchEvents(p) :
                   /\ obs[p].trace[i].currency = form[p].currency
                   /\ obs[p].trace[i].start_date_str = form[p].start_date
                   /\ obs[p].trace[i].end_date_str = form[p].end_date
            /\ \A k \in 1..Len(obs[p].trace) :
                   obs[p].trace[k].ev = "read" =>
                       \E i \in FetchEvents(p) : \E j \in 1..Len(obs[p].trace) :
                           i < j /\ j < k /\ obs[p].trace[j].ev = "save"

\* C3: a valid POST with every business day of the range already stored
\* makes no remote fetch and no write; the store is the same before and after.
C3_NoFetchNoWriteWhenCovered ==
    \A p \in active :
        (ValidPost(p) /\ WasCovered(p)) =>
            /\ FetchEvents(p) = {}
            /\ ~HasEvent(p, "save")
            /\ StoreUntouched(p)

\* C4: a request whose range lies entirely within a weekend never contacts
\* the remote rates endpoint and returns what the store holds for the range,
\* also when the table has not been created yet.
C4_WeekendRangeNeverFetches ==
    \A p \in active :
        (ValidPost(p) /\ RequestedBusinessDays(p) = {}) =>
            /\ FetchEvents(p) = {}
            /\ pc[p] = "done" =>
                   /\ page[p].kind = "chart"
                   /\ StoreUntouched(p)
                   /\ \A i \in 1..Len(rates) :
                          ( /\ rates[i].currency = loc[p].selected_currency
                            /\ str_to_date(rates[i].date) \in
                                   loc[p].start_date..loc[p].end_date )
                          => \E k \in 1..Len(page[p].currency_data) :
                                 page[p].currency_data[k] = <<rates[i].date, rates[i].rate>>

\* Row i of the table belongs to the request of worker p.
InRequest(p, i) ==
    /\ rates[i].currency = form[p].currency
    /\ str_to_date(form[p].start_date) <= str_to_date(rates[i].date)
    /\ str_to_date(rates[i].date) <= str_to_date(form[p].end_date)

\* C5: the rows handed to rendering are the result of a store query made
\* after any save of the request: they are the rows the store holds for the
\* request, never the raw result of the fetch.
C5_RenderedRowsAreReadAfterSave ==
    \A p \in active :
        page[p].kind = "chart" =>
            LET t == obs[p].trace
                data == page[p].currency_data
            IN  /\ Len(t) > 0 /\ t[Len(t)].ev = "read"
                /\ \A i \in 1..Len(t) : t[i].ev \in {"save", "fetch"} => i < Len(t)
                /\ \A k \in 1..Len(data) :
                       \E i \in 1..Len(rates) :
                           InRequest(p, i) /\ data[k] = <<rates[i].date, rates[i].rate>>
                /\ Len(data) = Cardinality({i \in 1..Len(rates) : InRequest(p, i)})
                /\ \A k \in 1..Len(data) : \A l \in 1..Len(data) :
                       k < l => str_to_date(data[k][1]) < str_to_date(data[l][1])

\* C5 witness: a chart page after a fetch whose raw rows are not the rows
\* served (a fetched row had its key stored already with another rate, and
\* a fetched row lies outside the requested range).
C5_Witness ==
    \E p \in active :
        /\ page[p].kind = "chart"
        /\ HasEvent(p, "save")
        /\ \E i \in 1..Len(loc[p].rows_to_insert) :
               LET r == loc[p].rows_to_insert[i] IN
               /\ \A k \in 1..Len(page[p].currency_data) :
                      page[p].currency_data[k] # <<r.date, r.rate>>
               /\ \E k \in 1..Len(page[p].currency_data) :
                      page[p].currency_data[k][1] = r.date

\* C6: when the rates endpoint answers 404 on the insufficient-cache path,
\* the exception raised by the fetch is the one index handles, no row is
\* written, and neither the final read nor the chart generation takes place.
C6_NotFoundWritesAndReadsNothing ==
    \A p \in active :
        (HasEvent(p, "fetch") /\ obs[p].status_code = 404) =>
            /\ pc[p] = "done"
            /\ obs[p].raised = fetch_currency_rates(
                   [raises |-> FALSE, status_code |-> 404, rates |-> <<>>]).raised
            /\ obs[p].raised # NoException
            /\ page[p] = index_except(obs[p].raised)
            /\ page[p].kind = "error" /\ ~page[p].chart_available
            /\ ~HasEvent(p, "save")
            /\ ~HasEvent(p, "read")
            /\ ~obs[p].send_chart
            /\ StoreUntouched(p)

\* C6 witness: a 404 for a request on a table that exists and holds rows,
\* after the cache check found a business day missing.
C6_Witness ==
    \E p \in active :
        /\ pc[p] = "done"
        /\ obs[p].status_code = 404
        /\ obs[p].table_before
        /\ Len(obs[p].rates_before) > 0
        /\ ~loc[p].data_already_in_cache
        /\ ~WasCovered(p)

\* ------------------------------------------- store failures (C11, C12)
\* C11: the store query returns an empty sequence, and no error, when the
\* table `rates` does not exist yet or holds no matching row.
C11_QueryOfMissingTableIsEmpty ==
    call.op = "get_data" =>
        /\ call.err = ""
        /\ (~table_exists \/ \A i \in 1..Len(rates) : ~InQuery(rates, i, call))
               => call.result_rows = <<>>

\* C12: a cache check whose read of the store fails ends the request with the
\* storage error; it never answers "not cached" and goes on to the fetch.
C12_StoreFailureIsNotCacheMiss ==
    [][\A p \in active :
          (pc[p] = "cache_check" /\ pc'[p] # "cache_check" /\ ~table_exists) =>
              /\ pc'[p] = "done"
              /\ obs'[p].raised = OperationalError
              /\ page'[p].kind = "error"]_vars

\* ------------------------------------------- validation of the range (C13)
\* C13: the validation accepts every range with start <= end <= start + 93
\* days (a range of exactly 93 days and a single day included), refuses every
\* start > end with the inverted-range error and every end - start > 93 days
\* with the range-too-large error.
C13_RangeValidation ==
    (call.op = "validate" /\ call.currency # "") =>
        LET s == call.start_date
            e == call.end_date
        IN  /\ (s <= e /\ e <= s + 93) => call.raised = NoException
            /\ s > e => call.raised =
                            InvalidInputError("'Start Date' cannot be after 'End Date'.")
            /\ e - s > 93 => call.raised =
                                 InvalidInputError("Maximum date range is 93 calendar days.")

\* C13 witness: a range of exactly 93 days, from January to May, was accepted.
C13_Witness ==
    /\ call.op = "validate" /\ call.currency # ""
    /\ call.end_date - call.start_date = 93
    /\ call.request_form.start_date[6] = 1
    /\ call.request_form.end_date[6] = 5
    /\ call.raised = NoException

\* -------------------------------------- the remote client (C14, C15, C19, C20)
\* The GET came back with a status other than 200 and 404, or did not come back.
OtherFailure(outcome) == outcome.raises \/ outcome.status_code \notin {200, 404}

NotFound(outcome) == ~outcome.raises /\ outcome.status_code = 404

\* C14: fetch_currency_rates fails with one kind of error on a 404 and with
\* another kind on any other non-200 status or transport failure: the caller
\* of two such calls holds two errors that differ.
C14_NotFoundDiffersFromUnavailable ==
    [][( /\ call.op = "fetch_currency_rates" /\ call'.op = "fetch_currency_rates"
         /\ NotFound(call.outcome) /\ OtherFailure(call'.outcome) )
          => /\ call.raised # NoException
             /\ call'.raised # NoException
             /\ call.raised # call'.raised]_vars

\* C15: a call of connect_with_nbp_api sends exactly one GET, to the given url
\* with timeout = config.REQUEST_TIMEOUT, and returns the response as it came;
\* a GET that failed is not sent again.
C15_OneGetNoRetry ==
    call.op = "connect_with_nbp_api" =>
        /\ call.gets = <<[url |-> call.url, timeout |-> 60]>>
        /\ IF call.outcome.raises
           THEN call.raised # NoException /\ call.returned = <<>>
           ELSE call.raised = NoException /\ call.returned = <<call.outcome>>

\* C15 witness: the GET of a rates url raised and was sent once.
C15_Witness ==
    /\ call.op = "connect_with_nbp_api"
    /\ call.outcome.raises
    /\ Len(call.gets) = 1
    /\ call.url # NBP_TABLES_URL

\* C19: an error raised by fetch_available_currencies or fetch_currency_rates
\* for a response of the remote carries the status code and the body of that
\* response.
C19_ErrorCarriesStatusAndBody ==
    ( /\ call.op \in {"fetch_available_currencies", "fetch_currency_rates"}
      /\ ~call.outcome.raises
      /\ call.outcome.status_code # 200 ) =>
        /\ call.raised # NoException
        /\ {"status_code", "body"} \subseteq DOMAIN call.raised
        /\ call.raised.status_code = call.outcome.status_code
        /\ call.raised.body = call.outcome.rates

\* C20: when the GET raises a transport exception, connect_with_nbp_api
\* raises NBPConnectionError with the error message of its caller, and no
\* exception of another type.
C20_TransportFailureIsNBPConnectionError ==
    (call.op = "connect_with_nbp_api" /\ call.outcome.raises) =>
        /\ call.raised.type = "NBPConnectionError"
        /\ call.raised.message = call.error_message

\* C21: check_nbp_response returns normally with exactly one info record and
\* no warning record when the status is 200, and raises NBPConnectionError
\* with exactly one warning record and no info record when the status is 404.
C21_LogsOfCheckNbpResponse ==
    call.op = "check_nbp_response" =>
        /\ call.response.status_code = 200 =>
               call.raised = NoException /\ call.log = <<"info">>
        /\ call.response.status_code = 404 =>
               call.raised.type = "NBPConnectionError" /\ call.log = <<"warning">>

\* Number of places of the list that hold the value.
CountOf(values, value) == Cardinality({k \in 1..Len(values) : values[k] = value})

\* C24: the list returned by get_available_currencies_from (the list that
\* fetch_available_currencies returns) is in ascending alphabetical order and
\* holds exactly the code of every entry of the table, one for each entry.
C24_CodesSortedOnePerEntry ==
    call.op = "get_available_currencies_from" =>
        /\ \A k \in 1..(Len(call.returned) - 1) :
               ~str_lt(call.returned[k + 1], call.returned[k])
        /\ Len(call.returned) = Len(call.rates)
        /\ \A i \in 1..Len(call.rates) :
               CountOf(call.returned, call.rates[i].code)
                   = CountOf([j \in 1..Len(call.rates) |-> call.rates[j].code],
                             call.rates[i].code)

\* C24 witness: a table of three entries, out of order, one code twice.
C24_Witness ==
    /\ call.op = "get_available_currencies_from"
    /\ Len(call.rates) = 3
    /\ call.rates[1].code = call.rates[3].code
    /\ str_lt(call.rates[2].code, call.rates[1].code)
    /\ call.returned # [j \in 1..3 |-> call.rates[j].code]

\* ------------------------------------------- the date functions (C22, C23)
\* C22: define_all_days_to_check(start_date, n) returns, ascending and without
\* repeats, exactly the days start_date + i, 0 <= i < n, that are not Saturday
\* or Sunday, each as YYYY-MM-DD; for 2021-01-01 and n = 10 these are
\* 2021-01-01, 2021-01-04, 2021-01-05, 2021-01-06, 2021-01-07, 2021-01-08.
C22_BusinessDaysOfTheRange ==
    call.op = "define_all_days_to_check" =>
        LET start == str_to_date(call.start_date)
            wanted == {date_to_str(start + i) : i \in {j \in 0..(call.days_difference - 1) :
                                                          ~IsWeekend(start + j)}}
        IN  /\ {call.returned[k] : k \in 1..Len(call.returned)} = wanted
            /\ \A k \in 1..(Len(call.returned) - 1) :
                   text_lt(call.returned[k], call.returned[k + 1])
            /\ (call.start_date = <<2,0,2,1,0,1,0,1>> /\ call.days_difference = 10) =>
                   call.returned = << <<2,0,2,1,0,1,0,1>>, <<2,0,2,1,0,1,0,4>>,
                                      <<2,0,2,1,0,1,0,5>>, <<2,0,2,1,0,1,0,6>>,
                                      <<2,0,2,1,0,1,0,7>>, <<2,0,2,1,0,1,0,8>> >>

\* C23: for every valid calendar date d, str_to_date(date_to_str(d)) returns d.
C23_DateRoundTrip ==
    call.op = "str_to_date(date_to_str)" =>
        /\ call.raised = NoException
        /\ call.returned = <<call.date_obj>>

\* --------------------------------------- the values of the form (C25, C29)
\* The request of worker p is a POST that is over and got past the listing of
\* the available currencies.
PostAnswered(p) ==
    /\ pc[p] = "done"
    /\ form[p].method = "POST"
    /\ page[p].kind # "escaped"

\* C25: a start_date or end_date of the form that is not a valid YYYY-MM-DD
\* date makes the request end with a validation error shown to the user (the
\* invalid-input kind), not with the generic unexpected-error outcome.
C25_MalformedDateIsValidationError ==
    \A p \in active :
        ( /\ PostAnswered(p)
          /\ form[p].currency # ""
          /\ \/ ~strptime_matches(form[p].start_date)
             \/ ~strptime_matches(form[p].end_date) ) =>
            /\ page[p].kind = "error"
            /\ obs[p].raised.type = "InvalidInputError"
            /\ page[p].error_message = obs[p].raised.message
            /\ page[p].error_message # "An unexpected error occurred, please try again."

\* The form names two dates and validation refuses them.
RefusedRange(request_form) ==
    /\ strptime_matches(request_form.start_date)
    /\ strptime_matches(request_form.end_date)
    /\ \/ str_to_date(request_form.start_date) > str_to_date(request_form.end_date)
       \/ str_to_date(request_form.end_date) - str_to_date(request_form.start_date) > 93

\* C29: when validation of a POST fails (no currency selected, start after
\* end, or a range of more than 93 days), the request makes no fetch of rates,
\* reads and writes nothing in the store, registers no chart, and ends with an
\* error page whose message is the message of the validation.
C29_FailedValidationTouchesNothing ==
    \A p \in active :
        ( /\ PostAnswered(p)
          /\ form[p].currency = "" \/ RefusedRange(form[p]) ) =>
            /\ obs[p].trace = <<>>
            /\ StoreUntouched(p)
            /\ ~obs[p].send_chart
            /\ page[p] = ErrorPage(
                   IF form[p].currency = "" THEN "Please select a currency."
                   ELSE IF str_to_date(form[p].start_date) > str_to_date(form[p].end_date)
                   THEN "'Start Date' cannot be after 'End Date'."
                   ELSE "Maximum date range is 93 calendar days.")

\* C29 witness: a range of more than 93 days was refused while the table held
\* rows saved by an earlier request.
C29_Witness ==
    /\ PostAnswered(1)
    /\ form[1].currency = "USD"
    /\ form[1].start_date \in DateStrs
    /\ form[1].end_date \in FarDateStrs
    /\ rates # <<>>
    /\ page[1].kind = "error"

\* C26: every failure raised while index handles a request, a transport
\* failure while the available currencies are listed included, is caught
\* inside index and ends in a rendered error page; no exception leaves index.
C26_NoExceptionEscapesIndex ==
    \A p \in active :
        pc[p] = "done" =>
            /\ page[p].kind \in {"form", "chart", "error"}
            /\ obs[p].raised # NoException => page[p].kind = "error"

\* ------------------------------------------- the life of a row (C27)
\* The elements of a list.
Range(values) == {values[k] : k \in 1..Len(values)}

\* C27: across any sequence of requests a (currency, date) key that is in the
\* store stays in the store: the set of stored keys never shrinks, and the
\* rows change only through a save of fetched rows.
C27_StoredKeysNeverShrink ==
    [][ /\ \A i \in 1..Len(rates) : \E j \in 1..Len(rates') : same_key(rates[i], rates'[j])
        /\ rates' # rates =>
              \E p \in active :
                  /\ pc[p] = "save" /\ pc'[p] = "read"
                  /\ HasEvent(p, "fetch")
                  /\ obs[p].status_code = 200
                  /\ Range(rates') \subseteq Range(rates) \cup Range(loc[p].rows_to_insert)
      ]_vars

\* C27 witness: a save has added a row to a table that held a row of a key
\* of the batch.
C27_Witness ==
    \E p \in active :
        /\ pc[p] = "read"
        /\ HasEvent(p, "save")
        /\ obs[p].rates_before # <<>>
        /\ Len(rates) > Len(obs[p].rates_before)
        /\ \E i \in 1..Len(loc[p].rows_to_insert) :
               /\ same_key(loc[p].rows_to_insert[i], obs[p].rates_before[1])
               /\ loc[p].rows_to_insert[i].rate # obs[p].rates_before[1].rate

\* The row has the key of no row of the batch.
OutsideBatch(row, rows) == \A k \in 1..Len(rows) : ~same_key(row, rows[k])

\* C30: a save of rows of one currency leaves every stored row of every other
\* currency, and every stored row of that currency whose date is not in the
\* batch, as it was: none is removed, altered or added.
C30_SaveLeavesOtherRowsAlone ==
    [][SaveReturned(call') =>
          /\ \A i \in 1..Len(rates) :
                 OutsideBatch(rates[i], call'.rows) =>
                     CountOf(rates', rates[i]) = CountOf(rates, rates[i])
          /\ \A j \in 1..Len(rates') :
                 OutsideBatch(rates'[j], call'.rows) => rates'[j] \in Range(rates)
      ]_vars

\* C30 witness: a batch was saved into a table of UNIQUE(date, currency) that
\* holds a row of the other currency for a date of the batch.
C30_Witness ==
    /\ revision = "modules"
    /\ SaveReturned(call)
    /\ Len(call.rows) > 0
    /\ \E i \in 1..Len(rates) :
           /\ rates[i].currency # call.rows[1].currency
           /\ rates[i].date = call.rows[1].date

\* ------------------------------------- two requests at a time (C16, C17, C18)
\* The request of worker p found the cache insufficient and got rows.
FetchedRows(p) ==
    /\ ValidPost(p)
    /\ ~loc[p].data_already_in_cache
    /\ obs[p].status_code = 200

\* C16: when two requests for the same currency and range both find the cache
\* insufficient and the remote returns the same rows to both, both fetch and
\* both save, and in every interleaving the table ends as a single such
\* request leaves it, with one row for each key.
C16_RefetchRaceIsBenign ==
    \A p \in active : \A q \in active \ {p} :
        ( /\ pc[p] = "done" /\ pc[q] = "done"
          /\ form[p] = form[q]
          /\ FetchedRows(p) /\ FetchedRows(q)
          /\ loc[p].rows_to_insert = loc[q].rows_to_insert ) =>
            /\ Cardinality(FetchEvents(p)) = 1 /\ Cardinality(FetchEvents(q)) = 1
            /\ HasEvent(p, "save") /\ HasEvent(q, "save")
            /\ rates = app_save_currency_rates_to_db(obs[p].rates_before,
                                                     loc[p].rows_to_insert)
            /\ NoDuplicateKeys(rates)

\* C16 witness: both requests arrived before either saved, both fetched the
\* same two rows, one of a key the table held with another rate.
C16_Witness ==
    /\ pc[1] = "done" /\ pc[2] = "done"
    /\ FetchedRows(1) /\ FetchedRows(2)
    /\ loc[1].rows_to_insert = loc[2].rows_to_insert
    /\ Len(loc[1].rows_to_insert) = 2
    /\ obs[1].rates_before = obs[2].rates_before
    /\ Len(obs[1].rates_before) = 1
    /\ \E i \in 1..2 :
           /\ same_key(obs[1].rates_before[1], loc[1].rows_to_insert[i])
           /\ obs[1].rates_before[1].rate # loc[1].rows_to_insert[i].rate

\* C17: a save is atomic towards the queries of other requests: the table
\* they read changes only by the whole effect of one batch, its rows inserted
\* and the duplicated rows removed.
C17_SaveIsAtomicForReaders ==
    [][rates' # rates =>
          \E p \in active :
              /\ pc[p] = "commit" /\ pc'[p] = "read"
              /\ rates' = app_save_currency_rates_to_db(rates, loc[p].rows_to_insert)]_vars

\* C17 witness: a request holds what it read from the table while the
\* transaction of the other holds rows that the table does not: the rows
\* inserted a second time, not yet removed.
C17_Witness ==
    \E p \in active : \E q \in active \ {p} :
        /\ txn.owner = p
        /\ pc[p] = "delete"
        /\ ~NoDuplicateKeys(txn.rows)
        /\ pc[q] = "render"
        /\ loc[q].currency_table # <<>>
        /\ txn.rows # rates

\* The remote answered the fetch of worker p with a status other than 200
\* and 404.
UpstreamFailed(p) ==
    /\ pc[p] = "done"
    /\ HasEvent(p, "fetch")
    /\ obs[p].status_code \notin {0, 200, 404}

\* C18: two requests that differ only in the failing status of the remote
\* (not 200, not 404) show the same error message to the user.
C18_SameMessageForEveryFailingStatus ==
    \A p \in active : \A q \in active \ {p} :
        (form[p] = form[q] /\ UpstreamFailed(p) /\ UpstreamFailed(q)) =>
            /\ page[p].kind = "error" /\ page[q].kind = "error"
            /\ page[p].error_message = page[q].error_message

\* C18 witness: one request met status 500 and the other 503.
C18_Witness ==
    /\ UpstreamFailed(1) /\ UpstreamFailed(2)
    /\ obs[1].status_code = 500
    /\ obs[2].status_code = 503
    /\ form[1] = form[2]

\* ------------------------------------------- the same request again (C28)
\* The request of worker q found the store as the save of worker p's request
\* left it: it came next, and nothing else had changed the store.
CameNextAfter(q, p) ==
    /\ obs[q].table_before
    /\ obs[q].rates_before
           = app_save_currency_rates_to_db(obs[p].rates_before, loc[p].rows_to_insert)

\* C28: after a request whose fetch succeeded, returned a row for every
\* business day of the requested range and was saved, the same request made
\* next, with no other change of the store, finds the cache sufficient and
\* makes no fetch.
C28_RepeatedRequestIsServedFromCache ==
    \A p \in active : \A q \in active \ {p} :
        ( /\ FetchedRows(p) /\ HasEvent(p, "save")
          /\ \A d \in RequestedBusinessDays(p) :
                 \E i \in 1..Len(loc[p].rows_to_insert) :
                     loc[p].rows_to_insert[i].date = date_to_str(d)
          /\ form[q] = form[p]
          /\ CameNextAfter(q, p)
          /\ pc[q] = "done"
          /\ page[q].kind # "escaped" ) =>
            /\ ValidPost(q)
            /\ loc[q].data_already_in_cache
            /\ FetchEvents(q) = {}

\* C28 witness: the first request added two fetched rows to the table, the
\* second found them and was served without a fetch.
C28_Witness ==
    /\ pc[1] = "done" /\ pc[2] = "done"
    /\ FetchedRows(1) /\ HasEvent(1, "save")
    /\ Len(loc[1].rows_to_insert) = 2
    /\ form[2] = form[1]
    /\ CameNextAfter(2, 1)
    /\ obs[2].rates_before # obs[1].rates_before
    /\ FetchEvents(2) = {}
    /\ page[2].kind = "chart"

====
